---------------------------- MODULE Spec2Model ----------------------------
(***************************************************************************)
(* SmartTicketSystem-Monolith: the categorization decision pipeline.       *)
(*                                                                         *)
(* categorize_ticket (the retry loop around the external classifier),      *)
(* _parse_ai_response (the response parser) and _fallback_categorization   *)
(* (the keyword scorer) of ai_categorization.py, with the constants of     *)
(* config.py.  A Python str is a sequence of one-character strings, so     *)
(* that split, strip, startswith, replace, lower, int and the substring    *)
(* test `in` are computed on characters as Python computes them.           *)
(***************************************************************************)
EXTENDS Integers, Sequences, FiniteSets, TLC

(***************************************************************************)
(* State                                                                   *)
(***************************************************************************)
VARIABLES
    title,          \* argument of the call
    description,    \* argument of the call
    api_key_set,    \* CLAUDE_API_KEY is not empty
    pc,             \* position of the call
    attempt,        \* the loop variable of categorize_ticket
    calls,          \* calls of _call_ai_service so far
    contacts,       \* requests sent to the external service so far
    delays,         \* calls of time.sleep so far
    log,            \* what the service did on each attempt so far: "raised",
                    \* or answered with a text that "named" an enumerated
                    \* department or that left it "unnamed"
    response_text,  \* the response the call returned on, when it did
    parsed,         \* what _parse_ai_response made of that response
    scores,         \* the scores dict of the last _fallback_categorization
    result,         \* what the call returned
    escaped,        \* the exception that left the call
    score_calls,    \* direct calls of _fallback_categorization so far
    remembered,     \* an earlier scorer call: its arguments and its result
    tickets,        \* the rows of the tickets table; a row's id is its index
    creation,       \* each POST /api/tickets in progress: its locals, position
                    \* and response
    last_response,  \* what the request or call just made was answered, until
                    \* the next step of a request
    db_faulty       \* statements on the database can fail

\* The state of one call of categorize_ticket or _fallback_categorization.
categorization_vars ==
    <<title, description, api_key_set, pc, attempt, calls, contacts, delays,
      log, response_text, parsed, scores, result, escaped, score_calls,
      remembered>>
\* The state of the ticket store and of the requests on it.
api_vars == <<tickets, creation, last_response, db_faulty>>

vars == <<title, description, api_key_set, pc, attempt, calls, contacts, delays,
          log, response_text, parsed, scores, result, escaped, score_calls,
          remembered, tickets, creation, last_response, db_faulty>>

(***************************************************************************)
(* Python values                                                           *)
(***************************************************************************)
\* Python's None, and a value that is not None.
None == [some |-> FALSE]
Some(v) == [some |-> TRUE, val |-> v]

\* The builtins min and max on two integers.
min(a, b) == IF a <= b THEN a ELSE b
max(a, b) == IF a >= b THEN a ELSE b

UpperCase == <<"A","B","C","D","E","F","G","H","I","J","K","L","M",
               "N","O","P","Q","R","S","T","U","V","W","X","Y","Z">>
LowerCase == <<"a","b","c","d","e","f","g","h","i","j","k","l","m",
               "n","o","p","q","r","s","t","u","v","w","x","y","z">>
Digits == <<"0","1","2","3","4","5","6","7","8","9">>
\* The characters str.strip() removes.
Whitespace == {" ", "\t", "\n", "\r"}

IndexOf(c, alphabet) == CHOOSE i \in 1..Len(alphabet) : alphabet[i] = c
IsIn(c, alphabet) == \E i \in 1..Len(alphabet) : alphabet[i] = c

\* str.lower()
lower(s) ==
    [i \in 1..Len(s) |->
        IF IsIn(s[i], UpperCase) THEN LowerCase[IndexOf(s[i], UpperCase)] ELSE s[i]]

\* str.startswith(prefix)
startswith(s, prefix) ==
    Len(s) >= Len(prefix) /\ SubSeq(s, 1, Len(prefix)) = prefix

\* The substring test `sub in s`.
contains(sub, s) ==
    \E i \in 1..(Len(s) - Len(sub) + 1) : SubSeq(s, i, i + Len(sub) - 1) = sub

\* str.strip()
RECURSIVE lstrip(_)
lstrip(s) == IF s # << >> /\ Head(s) \in Whitespace THEN lstrip(Tail(s)) ELSE s
RECURSIVE rstrip(_)
rstrip(s) ==
    IF s # << >> /\ s[Len(s)] \in Whitespace THEN rstrip(SubSeq(s, 1, Len(s) - 1)) ELSE s
strip(s) == rstrip(lstrip(s))

\* str.split(sep) for a one-character separator: the list of the pieces.
RECURSIVE split(_, _)
split(s, sep) ==
    IF \E i \in 1..Len(s) : s[i] = sep
    THEN LET i == CHOOSE k \in 1..Len(s) :
                      s[k] = sep /\ \A j \in 1..(k - 1) : s[j] # sep
         IN  <<SubSeq(s, 1, i - 1)>> \o split(SubSeq(s, i + 1, Len(s)), sep)
    ELSE <<s>>

\* str.replace(old, new) for a non-empty old: every occurrence, left to right.
RECURSIVE replace(_, _, _)
replace(s, old, new) ==
    IF s = << >> THEN << >>
    ELSE IF startswith(s, old)
         THEN new \o replace(SubSeq(s, Len(old) + 1, Len(s)), old, new)
         ELSE <<Head(s)>> \o replace(Tail(s), old, new)

\* The digits of an integer literal, underscores dropped, as a number.
RECURSIVE DigitsValue(_, _)
DigitsValue(s, acc) ==
    IF s = << >> THEN acc
    ELSE IF Head(s) = "_" THEN DigitsValue(Tail(s), acc)
         ELSE DigitsValue(Tail(s), 10 * acc + (IndexOf(Head(s), Digits) - 1))

\* int(s): Some(n) when s, stripped, is an optional sign and decimal digits
\* (single underscores between digits allowed); None when int raises ValueError.
int(s) ==
    LET t == strip(s)
        signed == t # << >> /\ Head(t) \in {"+", "-"}
        body == IF signed THEN Tail(t) ELSE t
        wellFormed ==
            /\ body # << >>
            /\ \A i \in 1..Len(body) : IsIn(body[i], Digits) \/ body[i] = "_"
            /\ body[1] # "_" /\ body[Len(body)] # "_"
            /\ \A i \in 1..(Len(body) - 1) : ~(body[i] = "_" /\ body[i + 1] = "_")
    IN  IF ~wellFormed THEN None
        ELSE IF signed /\ Head(t) = "-" THEN Some(0 - DigitsValue(body, 0))
             ELSE Some(DigitsValue(body, 0))

(***************************************************************************)
(* config.py                                                               *)
(***************************************************************************)
IT_Support == <<"I","T"," ","S","u","p","p","o","r","t">>
HR == <<"H","R">>
Facilities == <<"F","a","c","i","l","i","t","i","e","s">>
Finance == <<"F","i","n","a","n","c","e">>
General == <<"G","e","n","e","r","a","l">>

DEPARTMENTS == <<IT_Support, HR, Facilities, Finance, General>>

AI_MAX_RETRIES == 3
AI_DEFAULT_CONFIDENCE == 70
AI_FALLBACK_CONFIDENCE == 30

\* `department in DEPARTMENTS`
InDepartments(d) == \E i \in 1..Len(DEPARTMENTS) : DEPARTMENTS[i] = d

(***************************************************************************)
(* _parse_ai_response                                                      *)
(***************************************************************************)
DepartmentPrefix == <<"D","e","p","a","r","t","m","e","n","t",":">>
ConfidencePrefix == <<"C","o","n","f","i","d","e","n","c","e",":">>

\* `if valid_dept == dept`, which matches the exact spelling only.
match_department_exact(dept) ==
    IF \E i \in 1..Len(DEPARTMENTS) : DEPARTMENTS[i] = dept THEN Some(dept) ELSE None
\* `department = dept` in the loop: the name as the response spells it.
match_department_as_written(dept) ==
    IF \E i \in 1..Len(DEPARTMENTS) : lower(DEPARTMENTS[i]) = lower(dept)
    THEN Some(dept) ELSE None
\* The inner loop over DEPARTMENTS: the first department equal to dept when
\* both are lower-cased, or None when the loop ends without a break.
match_department(dept) ==
    LET hits == {i \in 1..Len(DEPARTMENTS) : lower(DEPARTMENTS[i]) = lower(dept)}
    IN  IF hits = {} THEN None
        ELSE Some(DEPARTMENTS[CHOOSE i \in hits : \A j \in hits : i <= j])

\* min(100, confidence): the cap without the floor.
clamp_confidence_upper_only(confidence) == min(100, confidence)
\* max(0, min(100, confidence))
clamp_confidence(confidence) == max(0, min(100, confidence))

\* As parse_line, with `pass` in the except clause: a Confidence: line
\* without an integer leaves the confidence of an earlier line in place.
parse_line_keeps_earlier(acc, raw) ==
    LET line == strip(raw)
    IN  IF startswith(line, DepartmentPrefix)
        THEN LET dept == strip(replace(line, DepartmentPrefix, << >>))
                 m == match_department(dept)
             IN  IF m.some THEN [acc EXCEPT !.department = m] ELSE acc
        ELSE IF startswith(line, ConfidencePrefix)
        THEN LET n == int(strip(replace(line, ConfidencePrefix, << >>)))
             IN  IF n.some
                 THEN [acc EXCEPT !.confidence = Some(clamp_confidence(n.val))]
                 ELSE acc
        ELSE acc
\* As parse_line, with `department = None` before the inner loop: a
\* Department: line that names no department clears an earlier one.
parse_line_clears_unmatched(acc, raw) ==
    LET line == strip(raw)
    IN  IF startswith(line, DepartmentPrefix)
        THEN LET dept == strip(replace(line, DepartmentPrefix, << >>))
             IN  [acc EXCEPT !.department = match_department(dept)]
        ELSE IF startswith(line, ConfidencePrefix)
        THEN LET n == int(strip(replace(line, ConfidencePrefix, << >>)))
             IN  IF n.some
                 THEN [acc EXCEPT !.confidence = Some(clamp_confidence(n.val))]
                 ELSE [acc EXCEPT !.confidence = None]
        ELSE acc
\* One iteration of the loop over the lines: the (department, confidence)
\* pair after the line, from the pair before it.
parse_line(acc, raw) ==
    LET line == strip(raw)
    IN  IF startswith(line, DepartmentPrefix)
        THEN LET dept == strip(replace(line, DepartmentPrefix, << >>))
                 m == match_department(dept)
             IN  IF m.some THEN [acc EXCEPT !.department = m] ELSE acc
        ELSE IF startswith(line, ConfidencePrefix)
        THEN LET n == int(strip(replace(line, ConfidencePrefix, << >>)))
             IN  IF n.some
                 THEN [acc EXCEPT !.confidence = Some(clamp_confidence(n.val))]
                 ELSE [acc EXCEPT !.confidence = None]
        ELSE acc

RECURSIVE parse_lines(_, _)
parse_lines(lines, acc) ==
    IF lines = << >> THEN acc
    ELSE parse_lines(Tail(lines), parse_line(acc, Head(lines)))

_parse_ai_response(text) ==
    parse_lines(split(text, "\n"), [department |-> None, confidence |-> None])

(***************************************************************************)
(* _fallback_categorization                                                *)
(***************************************************************************)
it_keywords ==
    << <<"c","o","m","p","u","t","e","r">>, <<"l","a","p","t","o","p">>, <<"s","o","f","t","w","a","r","e">>, <<"h","a","r","d","w","a","r","e">>, <<"n","e","t","w","o","r","k">>,
       <<"i","n","t","e","r","n","e","t">>, <<"e","m","a","i","l">>, <<"p","a","s","s","w","o","r","d">>, <<"l","o","g","i","n">>, <<"s","y","s","t","e","m">>,
       <<"a","p","p","l","i","c","a","t","i","o","n">>, <<"p","r","i","n","t","e","r">>, <<"w","i","f","i">>, <<"s","e","r","v","e","r">>, <<"d","a","t","a","b","a","s","e">>,
       <<"a","c","c","e","s","s">>, <<"a","c","c","o","u","n","t">> >>

hr_keywords ==
    << <<"p","a","y","r","o","l","l">>, <<"s","a","l","a","r","y">>, <<"b","e","n","e","f","i","t","s">>, <<"l","e","a","v","e">>, <<"v","a","c","a","t","i","o","n">>,
       <<"s","i","c","k">>, <<"e","m","p","l","o","y","e","e">>, <<"h","i","r","i","n","g">>, <<"t","r","a","i","n","i","n","g">>, <<"p","e","r","f","o","r","m","a","n","c","e">>,
       <<"h","r">>, <<"h","u","m","a","n"," ","r","e","s","o","u","r","c","e","s">> >>

facilities_keywords ==
    << <<"b","u","i","l","d","i","n","g">>, <<"o","f","f","i","c","e">>, <<"r","o","o","m">>, <<"m","a","i","n","t","e","n","a","n","c","e">>, <<"c","l","e","a","n","i","n","g">>,
       <<"p","a","r","k","i","n","g">>, <<"s","e","c","u","r","i","t","y">>, <<"t","e","m","p","e","r","a","t","u","r","e">>, <<"h","v","a","c">>, <<"d","e","s","k">>,
       <<"c","h","a","i","r">>, <<"f","a","c","i","l","i","t","y">>, <<"r","e","p","a","i","r">> >>

finance_keywords ==
    << <<"b","u","d","g","e","t">>, <<"e","x","p","e","n","s","e">>, <<"i","n","v","o","i","c","e">>, <<"p","a","y","m","e","n","t">>, <<"r","e","i","m","b","u","r","s","e","m","e","n","t">>,
       <<"p","u","r","c","h","a","s","e">>, <<"a","c","c","o","u","n","t","i","n","g">>, <<"f","i","n","a","n","c","i","a","l">>, <<"c","o","s","t">>, <<"m","o","n","e","y">> >>

\* text.count(keyword) summed over the keywords: every occurrence counts.
keyword_count_occurrences(keywords, text) ==
    Cardinality({ip \in (1..Len(keywords)) \X (1..Len(text)) :
        /\ ip[2] + Len(keywords[ip[1]]) - 1 <= Len(text)
        /\ SubSeq(text, ip[2], ip[2] + Len(keywords[ip[1]]) - 1) = keywords[ip[1]]})
\* sum(1 for keyword in keywords if keyword in text)
keyword_count(keywords, text) ==
    Cardinality({i \in 1..Len(keywords) : contains(keywords[i], text)})

\* The scores dict with the Finance key inserted first.
score_keys_finance_first == <<Finance, IT_Support, HR, Facilities, General>>
\* The keys of the scores dict in insertion order, the order max iterates in.
score_keys == <<IT_Support, HR, Facilities, Finance, General>>

\* text = (title + " " + description).lower()
fallback_text(a_title, a_description) == lower(a_title \o <<" ">> \o a_description)

\* The scores dict.
keyword_scores(text) ==
    [d \in {score_keys[i] : i \in 1..Len(score_keys)} |->
        IF d = IT_Support THEN keyword_count(it_keywords, text)
        ELSE IF d = HR THEN keyword_count(hr_keywords, text)
        ELSE IF d = Facilities THEN keyword_count(facilities_keywords, text)
        ELSE IF d = Finance THEN keyword_count(finance_keywords, text)
        ELSE 0]

\* max(scores, key=scores.get): the first key, in iteration order, whose value
\* no other key's value exceeds.
RECURSIVE max_from(_, _, _, _)
max_from(keys, value, i, best) ==
    IF i > Len(keys) THEN best
    ELSE max_from(keys, value, i + 1,
                  IF value[keys[i]] > value[best] THEN keys[i] ELSE best)
\* As max_by_key, but a later key with an equal value replaces the best one.
RECURSIVE max_from_last(_, _, _, _)
max_from_last(keys, value, i, best) ==
    IF i > Len(keys) THEN best
    ELSE max_from_last(keys, value, i + 1,
                       IF value[keys[i]] >= value[best] THEN keys[i] ELSE best)
max_by_key_last(keys, value) == max_from_last(keys, value, 2, keys[1])
\* As max_by_key, but equal values are told apart by turns: the first such key
\* on one call, the last on the next.
max_by_key_by_turns(keys, value) ==
    IF score_calls % 2 = 0 THEN max_from(keys, value, 2, keys[1])
    ELSE max_by_key_last(keys, value)
max_by_key(keys, value) == max_from(keys, value, 2, keys[1])

\* As match_confidence, with 30 for each match and no base.
match_confidence_per_match(matches) == min(matches * 30, 75)
\* As match_confidence, capped at the top of the scale.
match_confidence_cap_100(matches) == min(50 + (matches * 10), 100)
\* As match_confidence, without the cap.
match_confidence_uncapped(matches) == 50 + (matches * 10)
\* min(50 + (scores[department] * 10), 75)
match_confidence(matches) == min(50 + (matches * 10), 75)

\* As choose_from_scores, but a single match counts as none.
choose_from_scores_above_one(score) ==
    LET department == max_by_key(score_keys, score)
    IN  IF score[department] <= 1
        THEN [department |-> General, confidence |-> AI_FALLBACK_CONFIDENCE]
        ELSE [department |-> department,
              confidence |-> match_confidence(score[department])]
\* The department and confidence chosen from the scores dict.
choose_from_scores(score) ==
    LET department == max_by_key(score_keys, score)
    IN  IF score[department] = 0
        THEN [department |-> General, confidence |-> AI_FALLBACK_CONFIDENCE]
        ELSE [department |-> department,
              confidence |-> match_confidence(score[department])]

_fallback_categorization(a_title, a_description) ==
    choose_from_scores(keyword_scores(fallback_text(a_title, a_description)))

(***************************************************************************)
(* database.py: the tickets table                                          *)
(***************************************************************************)
TICKET_STATUSES == <<"pending", "in_progress", "resolved">>

\* INSERT INTO tickets (title, description, user_name, user_email, status)
\* VALUES (?, ?, ?, ?, 'pending'): the new row, its department and
\* confidence_score NULL.
inserted_row(a_title, a_description, user_name, user_email) ==
    [title |-> a_title, description |-> a_description,
     user_name |-> user_name, user_email |-> user_email,
     department |-> None, confidence_score |-> None, status |-> "pending"]

\* An UPDATE without its WHERE clause: every row.
where_any_id(row_id, ticket_id) == TRUE
\* WHERE id = ?
where_id(row_id, ticket_id) == row_id = ticket_id

\* UPDATE tickets SET department = ?, confidence_score = ? WHERE id = ?
\* A statement that matches no row changes nothing and raises nothing.
set_department(table, ticket_id, department, confidence_score) ==
    [i \in 1..Len(table) |->
        IF where_id(i, ticket_id)
        THEN [table[i] EXCEPT !.department = Some(department),
                              !.confidence_score = Some(confidence_score)]
        ELSE table[i]]

\* UPDATE tickets SET status = ?, department = NULL, confidence_score = NULL
\* WHERE id = ?
set_status_unassigns(table, ticket_id, status) ==
    [i \in 1..Len(table) |->
        IF where_id(i, ticket_id)
        THEN [table[i] EXCEPT !.status = status, !.department = None,
                              !.confidence_score = None]
        ELSE table[i]]
\* UPDATE tickets SET status = ? WHERE id = ?
set_status(table, ticket_id, status) ==
    [i \in 1..Len(table) |->
        IF where_id(i, ticket_id) THEN [table[i] EXCEPT !.status = status]
        ELSE table[i]]

\* SELECT id FROM tickets WHERE id = ?, fetchone() is not None
ticket_exists(table, ticket_id) == \E i \in 1..Len(table) : where_id(i, ticket_id)

\* SELECT * FROM tickets: the rows with their ids.
select_all(table) == {[id |-> i, row |-> table[i]] : i \in 1..Len(table)}

\* SELECT department, COUNT(*) FROM tickets GROUP BY department, as the dict
\* by_department; the rows without a department are counted under None.
by_department(table) ==
    [d \in {table[i].department : i \in 1..Len(table)} |->
        Cardinality({i \in 1..Len(table) : table[i].department = d})]

(***************************************************************************)
(* routing.py                                                              *)
(***************************************************************************)
\* The check of the confidence without its upper end.
confidence_invalid_no_upper(confidence_score) ==
    confidence_score = None \/ confidence_score.val < 0
\* `not isinstance(confidence_score, (int, float)) or confidence_score < 0
\* or confidence_score > 100`, for a confidence that is an integer or, as
\* None, no number.
confidence_invalid(confidence_score) ==
    confidence_score = None \/ confidence_score.val < 0 \/ confidence_score.val > 100

\* update_ticket_department returns True when the statement raised nothing,
\* without looking at the number of rows it changed.
update_succeeded(table, ticket_id, raised) == ~raised

\* route_ticket_to_department(ticket_id, department, confidence_score) on
\* the table, raised telling whether the UPDATE raises: what the call
\* returns or raises, and the table after it.
route_ticket_to_department(table, ticket_id, department, confidence_score, raised) ==
    IF ~InDepartments(department) \/ confidence_invalid(confidence_score)
    THEN [raises |-> Some("ValueError"), returns |-> None, table |-> table]
    ELSE [raises |-> None,
          returns |-> Some(update_succeeded(table, ticket_id, raised)),
          table |-> IF raised THEN table
                    ELSE set_department(table, ticket_id, department,
                                        confidence_score.val)]

(***************************************************************************)
(* app.py: the checks of create_new_ticket and update_status               *)
(***************************************************************************)
required_fields == <<"title", "description", "user_name", "user_email">>

\* `field not in data`, without the test of the value.
field_missing_absent_only(data, field) == data[field] = None
\* `field not in data or not data[field]`, for a JSON object whose values are
\* strings; a field that is absent is None.
field_missing(data, field) == data[field] = None \/ data[field].val = << >>

\* The checks of create_new_ticket in their order: the status of the error
\* response, or None when the request passes.
create_ticket_error(data) ==
    IF \E i \in 1..Len(required_fields) : field_missing(data, required_fields[i])
    THEN Some(400)
    ELSE IF Len(strip(data.title.val)) < 3 THEN Some(400)
    ELSE IF Len(strip(data.description.val)) < 10 THEN Some(400)
    ELSE None

\* No check of the status against TICKET_STATUSES.
status_invalid_never(new_status) == FALSE
\* `new_status not in TICKET_STATUSES`
status_invalid(new_status) ==
    \A i \in 1..Len(TICKET_STATUSES) : TICKET_STATUSES[i] # new_status

\* update_status with the ticket looked up before the status is checked.
update_status_error_ticket_first(data, exists) ==
    IF ~exists THEN Some(404)
    ELSE IF data.status = None THEN Some(400)
    ELSE IF status_invalid(data.status.val) THEN Some(400)
    ELSE None
\* The checks of update_status in their order: the status of the error
\* response, or None when the request passes.  A field that is absent is None.
update_status_error(data, exists) ==
    IF data.status = None THEN Some(400)
    ELSE IF status_invalid(data.status.val) THEN Some(400)
    ELSE IF ~exists THEN Some(404)
    ELSE None

(***************************************************************************)
(* Requests                                                                *)
(***************************************************************************)
\* The two POST /api/tickets that run at the same time.
Creators == {1, 2}

\* A POST /api/tickets that has not been received.
NoCreation ==
    [pc |-> "request", data |-> None, title |-> << >>, description |-> << >>,
     ticket_id |-> 0, attempt |-> 0, calls |-> 0, delays |-> 0,
     outcomes |-> << >>, department |-> None, confidence |-> None,
     code |-> 0, success |-> FALSE]

\* No ticket stored and no request made.
NoRequests ==
    /\ tickets = << >>
    /\ creation = [c \in Creators |-> NoCreation]
    /\ last_response = None
    /\ db_faulty = FALSE

(***************************************************************************)
(* Inputs                                                                  *)
(***************************************************************************)
\* The most fragments a ticket description is put together from.
MaxDescFragments == 1
\* The most calls of the scorer in a row.
MaxScoreCalls == 3
\* The most lines of a classifier response.
MaxResponseLines == 3

\* Strictly increasing sequences of at most n indexes out of 1..k.
Increasing(k, n) ==
    {s \in UNION {[1..m -> 1..k] : m \in 0..n} :
        \A i \in 1..(Len(s) - 1) : s[i] < s[i + 1]}
\* All sequences of at most n indexes out of 1..k.
Arbitrary(k, n) == UNION {[1..m -> 1..k] : m \in 0..n}

\* sep.join(parts[i] for i in picks)
RECURSIVE join(_, _, _)
join(parts, picks, sep) ==
    IF picks = << >> THEN << >>
    ELSE IF Len(picks) = 1 THEN parts[picks[1]]
         ELSE parts[picks[1]] \o sep \o join(parts, Tail(picks), sep)

Titles == { <<"H","e","l","l","o">>, <<"R","e","s","e","t"," ","P","A","S","S","W","O","R","D"," ","l","o","g","i","n">>, <<"P","a","y","r","o","l","l">> }

Fragments ==
    << <<"L","a","p","t","o","p">>, <<"t","h","r","e","e"," ","S","A","L","A","R","Y">>, <<"i","n","v","o","i","c","e"," ","b","u","d","g","e","t"," ","c","o","s","t">>, <<"A","c","c","o","u","n","t","i","n","g">>,
       <<"C","o","s","t"," ","c","o","s","t">>, <<"H","e","l","l","o"," ","t","h","e","r","e">>, <<"o","f","f","i","c","e"," ","d","e","s","k">> >>

Descriptions ==
    {join(Fragments, s, <<" ">>) : s \in Increasing(Len(Fragments), MaxDescFragments)}

ResponseLines ==
    << <<"D","e","p","a","r","t","m","e","n","t",":"," ","H","R">>, <<"D","e","p","a","r","t","m","e","n","t",":"," ","i","t"," ","s","u","p","p","o","r","t">>, <<"D","e","p","a","r","t","m","e","n","t",":"," ","S","a","l","e","s">>,
       <<"C","o","n","f","i","d","e","n","c","e",":"," ","3","0">>, <<"C","o","n","f","i","d","e","n","c","e",":"," ","1","5","0">>, <<"C","o","n","f","i","d","e","n","c","e",":"," ","-","5">>,
       <<"C","o","n","f","i","d","e","n","c","e",":"," ","h","i","g","h">>, <<"C","o","n","f","i","d","e","n","c","e",":"," ","7","0">>, <<"C","o","n","f","i","d","e","n","c","e",":"," ","0">> >>

\* The texts client.messages.create can answer with.
Responses ==
    {join(ResponseLines, s, <<"\n">>) : s \in Arbitrary(Len(ResponseLines), MaxResponseLines)}

\* response.content[0].text.strip(): the texts _call_ai_service can return.
ServiceTexts == {strip(r) : r \in Responses}

\* Each of them with what _parse_ai_response makes of it: the pure function
\* is evaluated once per text, not once per state.
ParsedTexts ==
    {[text |-> t, parsed |-> _parse_ai_response(t)] : t \in ServiceTexts}

\* What a response says, read off its text line by line and independently of
\* the parser: the vocabulary the properties below are stated in.
StrippedLines(text) ==
    LET ls == split(text, "\n") IN [i \in 1..Len(ls) |-> strip(ls[i])]
\* What follows the prefix on a line that starts with it.
AfterPrefix(line, prefix) == strip(SubSeq(line, Len(prefix) + 1, Len(line)))
\* The line is a Department: line that names department d, in any letter case.
LineNames(line, d) ==
    startswith(line, DepartmentPrefix)
        /\ lower(AfterPrefix(line, DepartmentPrefix)) = lower(d)
DepartmentSet == {DEPARTMENTS[i] : i \in 1..Len(DEPARTMENTS)}
LineNamesDepartment(line) == \E d \in DepartmentSet : LineNames(line, d)
\* The line is a Confidence: line.
IsConfidenceLine(line) == startswith(line, ConfidencePrefix)
\* The integer a Confidence: line carries, or None.
LineInteger(line) == int(AfterPrefix(line, ConfidencePrefix))
Last(indexes) == CHOOSE i \in indexes : \A j \in indexes : j <= i

\* For a response text: the enumerated departments its Department: lines name
\* and the one the last of these lines names; the integers its Confidence:
\* lines carry and, when the last Confidence: line carries one, that integer.
WhatItSays(text) ==
    LET ls == StrippedLines(text)
        dl == {i \in 1..Len(ls) : LineNamesDepartment(ls[i])}
        cl == {i \in 1..Len(ls) : IsConfidenceLine(ls[i])}
    IN  [departments |-> {d \in DepartmentSet : \E i \in dl : LineNames(ls[i], d)},
         last_department |->
            IF dl = {} THEN None
            ELSE Some(CHOOSE d \in DepartmentSet : LineNames(ls[Last(dl)], d)),
         integers |-> {LineInteger(ls[i]).val : i \in {j \in cl : LineInteger(ls[j]).some}},
         confidence_lines |-> Cardinality(cl),
         last_integer |-> IF cl = {} THEN None ELSE LineInteger(ls[Last(cl)])]
Says == [t \in ServiceTexts |-> WhatItSays(t)]

\* The exceptions _call_ai_service can raise once the client is used: the
\* SDK's errors it logs and re-raises, and the errors of reading
\* response.content[0].text.  All are subclasses of Exception.
ServiceErrors ==
    {"RateLimitError", "APIConnectionError", "APIError", "TypeError",
     "IndexError", "AttributeError"}
\* Raised before the client is created when CLAUDE_API_KEY is empty.
MissingKeyError == "ValueError"

NoParse == [department |-> None, confidence |-> None]

(***************************************************************************)
(* categorize_ticket                                                       *)
(***************************************************************************)
Init ==
    /\ title \in Titles
    /\ description \in Descriptions
    /\ api_key_set \in BOOLEAN
    /\ pc = "attempt"
    /\ attempt = 0
    /\ calls = 0
    /\ contacts = 0
    /\ delays = 0
    /\ log = << >>
    /\ response_text = << >>
    /\ parsed = NoParse
    /\ scores = None
    /\ result = None
    /\ escaped = None
    /\ score_calls = 0
    /\ remembered = None
    /\ NoRequests

\* A handler that takes the SDK's errors only.
ExceptionCaught_sdk_only(e) == e \in {"RateLimitError", "APIConnectionError", "APIError"}
\* A handler that lets the ValueError of the missing key through.
ExceptionCaught_service_only(e) == e \in ServiceErrors
\* `except Exception as e`: the handler takes every subclass of Exception.
ExceptionCaught(e) == e \in ServiceErrors \cup {MissingKeyError}

\* `if department and department in DEPARTMENTS`
department_valid(department) == department.some /\ InDepartments(department.val)

\* `if not confidence`, which takes 0 for missing.
confidence_or_default_falsy(confidence) ==
    IF confidence = None \/ confidence.val = 0 THEN AI_DEFAULT_CONFIDENCE
    ELSE confidence.val
\* `if confidence is None: confidence = AI_DEFAULT_CONFIDENCE`
confidence_or_default(confidence) ==
    IF confidence = None THEN AI_DEFAULT_CONFIDENCE ELSE confidence.val

\* `if attempt < AI_MAX_RETRIES`, which sleeps after the last attempt too.
sleep_after_every_failure(i) == i < AI_MAX_RETRIES
\* No sleep between attempts.
sleep_never(i) == FALSE
\* `if attempt < AI_MAX_RETRIES - 1`
sleep_before_retry(i) == i < AI_MAX_RETRIES - 1

\* range(AI_MAX_RETRIES - 1) and range(AI_MAX_RETRIES + 1).
in_range_one_less(i) == i < AI_MAX_RETRIES - 1
in_range_one_more(i) == i < AI_MAX_RETRIES + 1
\* `for attempt in range(AI_MAX_RETRIES)`: i is a value the loop variable takes.
in_range(i) == i < AI_MAX_RETRIES

\* A loop that a failed iteration leaves: `break` where the loop goes on.
after_iteration_gives_up(i) == "fallback"
\* The position after iteration i ended without a return: the next iteration,
\* or the statement after the loop.
after_iteration(i) == IF in_range(i + 1) THEN "attempt" ELSE "fallback"

\* The service call raised e.
AttemptRaises(e) ==
    /\ UNCHANGED <<response_text, parsed, result, scores>>
    /\ IF ExceptionCaught(e)
       THEN /\ log' = Append(log, "raised")
            /\ escaped' = escaped
            /\ IF sleep_before_retry(attempt)
               THEN pc' = "sleep" /\ attempt' = attempt
               ELSE pc' = after_iteration(attempt) /\ attempt' = attempt + 1
       ELSE /\ escaped' = Some(e)
            /\ pc' = "raised"
            /\ UNCHANGED <<log, attempt>>

\* The service call returned text (already stripped by _call_ai_service).
\* response_text and department are dead once the iteration does not return,
\* so only a returning iteration's are kept.
AttemptReturns(text, p, names) ==
    /\ log' = Append(log, IF names THEN "named" ELSE "unnamed")
    /\ UNCHANGED <<escaped, scores>>
    /\ IF department_valid(p.department)
       THEN /\ result' = Some([department |-> p.department.val,
                               confidence |-> confidence_or_default(p.confidence)])
            /\ response_text' = text
            /\ parsed' = p
            /\ pc' = "returned"
            /\ attempt' = attempt
       ELSE /\ pc' = after_iteration(attempt)
            /\ attempt' = attempt + 1
            /\ UNCHANGED <<result, response_text, parsed>>

\* One iteration of the loop: the call of _call_ai_service and what follows
\* it up to the next blocking call.
Attempt ==
    /\ pc = "attempt"
    /\ UNCHANGED api_vars
    /\ calls' = calls + 1
    /\ UNCHANGED <<title, description, api_key_set, delays, score_calls, remembered>>
    /\ IF ~api_key_set
       THEN /\ contacts' = contacts
            /\ AttemptRaises(MissingKeyError)
       ELSE /\ contacts' = contacts + 1
            /\ \/ \E e \in ServiceErrors : AttemptRaises(e)
               \/ \E r \in ParsedTexts :
                    AttemptReturns(r.text, r.parsed, Says[r.text].departments # {})

\* time.sleep(AI_RETRY_DELAY), then the next iteration.
Sleep ==
    /\ pc = "sleep"
    /\ UNCHANGED api_vars
    /\ delays' = delays + 1
    /\ attempt' = attempt + 1
    /\ pc' = after_iteration(attempt)
    /\ UNCHANGED <<title, description, api_key_set, calls, contacts, log,
                   response_text, parsed, scores, result, escaped, score_calls,
                   remembered>>

\* The scores dict of _fallback_categorization, for every ticket: text is
\* built from the title and the description and each keyword list is counted
\* in it.
ticket_scores ==
    [t \in Titles |-> [d \in Descriptions |-> keyword_scores(fallback_text(t, d))]]

\* `return _fallback_categorization(title, description)` after the loop: the
\* body of _fallback_categorization, its scores dict kept.
Fallback ==
    /\ pc = "fallback"
    /\ UNCHANGED api_vars
    /\ scores' = Some(ticket_scores[title][description])
    /\ result' = Some(choose_from_scores(scores'.val))
    /\ score_calls' = score_calls + 1
    /\ pc' = "returned"
    /\ UNCHANGED <<title, description, api_key_set, attempt, calls, contacts,
                   delays, log, response_text, parsed, escaped, remembered>>

Next == Attempt \/ Sleep \/ Fallback

Spec == Init /\ [][Next]_vars

\* Every call of the service returns or raises, and every sleep ends.
LiveSpec == Spec /\ WF_vars(Next)

(***************************************************************************)
(* _fallback_categorization called on its own, one ticket after another    *)
(***************************************************************************)
InitScore ==
    /\ title \in Titles
    /\ description \in Descriptions
    /\ api_key_set = TRUE
    /\ pc = "score"
    /\ attempt = 0
    /\ calls = 0
    /\ contacts = 0
    /\ delays = 0
    /\ log = << >>
    /\ response_text = << >>
    /\ parsed = NoParse
    /\ scores = None
    /\ result = None
    /\ escaped = None
    /\ score_calls = 0
    /\ remembered = None
    /\ NoRequests

\* _fallback_categorization(title, description).  The call and its result
\* may be remembered, to be compared with a later call's.
Score ==
    /\ pc = "score"
    /\ UNCHANGED api_vars
    /\ scores' = Some(ticket_scores[title][description])
    /\ result' = Some(choose_from_scores(scores'.val))
    /\ score_calls' = score_calls + 1
    /\ pc' = "scored"
    /\ \/ remembered' = remembered
       \/ /\ remembered = None
          /\ remembered' = Some([title |-> title, description |-> description,
                                 result |-> result'.val, call |-> score_calls'])
    /\ UNCHANGED <<title, description, api_key_set, attempt, calls, contacts,
                   delays, log, response_text, parsed, escaped>>

\* The caller goes on to the next ticket.
NextTicket ==
    /\ pc = "scored"
    /\ UNCHANGED api_vars
    /\ score_calls < MaxScoreCalls
    /\ title' \in Titles
    /\ description' \in Descriptions
    /\ pc' = "score"
    /\ scores' = None
    /\ result' = None
    /\ UNCHANGED <<api_key_set, attempt, calls, contacts, delays, log,
                   response_text, parsed, escaped, score_calls, remembered>>

NextScore == Score \/ NextTicket

SpecScore == InitScore /\ [][NextScore]_vars

(***************************************************************************)
(* POST /api/tickets, twice at the same time, and the requests that read   *)
(***************************************************************************)
\* A request body: a JSON object with string values, None for a field that
\* is absent.
Body(t, d, n, e) == [title |-> t, description |-> d, user_name |-> n, user_email |-> e]
PostBodies ==
    { Body(Some(<<"R","e","s","e","t"," ","P","A","S","S","W","O","R","D"," ","l","o","g","i","n">>), Some(<<"H","e","l","l","o"," ","t","h","e","r","e">>), Some(<<"A","n","n">>), Some(<<"a","@","b",".","c">>)),
      Body(Some(<<" "," ","P","a","y","r","o","l","l"," ">>), Some(<<" ","H","e","l","l","o"," ","t","h","e","r","e">>), Some(<<"A","n","n">>), Some(<<"a","@","b",".","c">>)),
      Body(Some(<<"T","e","s","t">>), Some(<<"H","e","l","l","o"," ","t","h","e","r","e">>), None, None),
      Body(None, Some(<<"H","e","l","l","o"," ","t","h","e","r","e">>), Some(<<"A","n","n">>), Some(<<"a","@","b",".","c">>)),
      Body(Some(<<"P","a","y","r","o","l","l">>), Some(<<"H","e","l","l","o"," ","t","h","e","r","e">>), Some(<< >>), Some(<<"a","@","b",".","c">>)),
      Body(Some(<<"H","i">>), Some(<<"H","e","l","l","o"," ","t","h","e","r","e">>), Some(<<"A","n","n">>), Some(<<"a","@","b",".","c">>)),
      Body(Some(<<" ","a","b"," "," ">>), Some(<<"H","e","l","l","o"," ","t","h","e","r","e">>), Some(<<"A","n","n">>), Some(<<"a","@","b",".","c">>)),
      Body(Some(<<"P","a","y","r","o","l","l">>), Some(<<"t","o","o"," ","s","h","o","r","t"," ">>), Some(<<"A","n","n">>), Some(<<"a","@","b",".","c">>)),
      Body(Some(<<"P","a","y","r","o","l","l">>), Some(<< >>), Some(<<"A","n","n">>), Some(<<"a","@","b",".","c">>)) }

\* The texts the classifier answers a creation with.
ClassifierTexts ==
    { <<"D","e","p","a","r","t","m","e","n","t",":"," ","H","R","\n","C","o","n","f","i","d","e","n","c","e",":"," ","3","0">>,
      <<"D","e","p","a","r","t","m","e","n","t",":"," ","i","t"," ","s","u","p","p","o","r","t">>,
      <<"D","e","p","a","r","t","m","e","n","t",":"," ","S","a","l","e","s","\n","C","o","n","f","i","d","e","n","c","e",":"," ","7","0">> }
\* What _parse_ai_response makes of each, and what each says.
ClassifierParsed == [t \in ClassifierTexts |-> _parse_ai_response(t)]
ClassifierSays == [t \in ClassifierTexts |-> WhatItSays(t)]

\* The stripped title and description of the bodies that pass the checks,
\* and what _fallback_categorization returns for each.
PostedTickets ==
    {<<strip(data.title.val), strip(data.description.val)>> :
        data \in {b \in PostBodies : create_ticket_error(b) = None}}
posted_ticket_fallback ==
    [tk \in PostedTickets |-> _fallback_categorization(tk[1], tk[2])]

\* Whether a statement on the database raises.
StatementRaises == IF db_faulty THEN BOOLEAN ELSE {FALSE}

\* No call of categorize_ticket or _fallback_categorization on its own.
NoCategorization ==
    /\ title = << >>
    /\ description = << >>
    /\ api_key_set = TRUE
    /\ pc = "idle"
    /\ attempt = 0
    /\ calls = 0
    /\ contacts = 0
    /\ delays = 0
    /\ log = << >>
    /\ response_text = << >>
    /\ parsed = NoParse
    /\ scores = None
    /\ result = None
    /\ escaped = None
    /\ score_calls = 0
    /\ remembered = None

InitCreate ==
    /\ NoCategorization
    /\ tickets = << >>
    /\ creation = [c \in Creators |-> NoCreation]
    /\ last_response = None
    /\ db_faulty = FALSE

\* The response of create_new_ticket.
Respond(s, code) ==
    [s EXCEPT !.pc = "responded", !.code = code, !.success = (code = 201)]

\* create_new_ticket up to the return of create_ticket: the checks of the
\* body, and the INSERT in a transaction of its own.
CreateNewTicket(c) ==
    /\ creation[c].pc = "request"
    /\ \E data \in PostBodies, raised \in StatementRaises :
        LET s == [creation[c] EXCEPT !.data = Some(data)]
            error == create_ticket_error(data)
        IN  IF error # None
            THEN /\ creation' = [creation EXCEPT ![c] = Respond(s, error.val)]
                 /\ tickets' = tickets
            ELSE IF raised
            THEN /\ creation' = [creation EXCEPT ![c] = Respond(s, 500)]
                 /\ tickets' = tickets
            ELSE /\ tickets' = Append(tickets,
                        inserted_row(strip(data.title.val), strip(data.description.val),
                                     strip(data.user_name.val), strip(data.user_email.val)))
                 /\ creation' = [creation EXCEPT ![c] =
                        [s EXCEPT !.pc = "attempt",
                                  !.title = strip(data.title.val),
                                  !.description = strip(data.description.val),
                                  !.ticket_id = Len(tickets')]]
    /\ last_response' = None
    /\ UNCHANGED db_faulty
    /\ UNCHANGED categorization_vars

\* One iteration of the loop of categorize_ticket, called by
\* create_new_ticket: the classifier raises, or answers with a text.
Categorize(c) ==
    /\ creation[c].pc = "attempt"
    /\ LET s == [creation[c] EXCEPT !.calls = @ + 1] IN
        \/ \E e \in ServiceErrors :
            creation' = [creation EXCEPT ![c] =
                IF ~ExceptionCaught(e) THEN Respond(s, 500)
                ELSE [s EXCEPT
                        !.outcomes = Append(@, None),
                        !.pc = IF sleep_before_retry(s.attempt) THEN "sleep"
                               ELSE after_iteration(s.attempt),
                        !.attempt = IF sleep_before_retry(s.attempt) THEN @ ELSE @ + 1]]
        \/ \E text \in ClassifierTexts :
            LET p == ClassifierParsed[text] IN
            creation' = [creation EXCEPT ![c] =
                IF department_valid(p.department)
                THEN [s EXCEPT
                        !.outcomes = Append(@, Some(text)),
                        !.department = p.department,
                        !.confidence = Some(confidence_or_default(p.confidence)),
                        !.pc = "route"]
                ELSE [s EXCEPT
                        !.outcomes = Append(@, Some(text)),
                        !.pc = after_iteration(s.attempt),
                        !.attempt = @ + 1]]
    /\ last_response' = None
    /\ UNCHANGED <<tickets, db_faulty>>
    /\ UNCHANGED categorization_vars

\* time.sleep(AI_RETRY_DELAY) in categorize_ticket.
Backoff(c) ==
    /\ creation[c].pc = "sleep"
    /\ creation' = [creation EXCEPT ![c] =
            [@ EXCEPT !.delays = @ + 1,
                      !.attempt = @ + 1,
                      !.pc = after_iteration(creation[c].attempt)]]
    /\ last_response' = None
    /\ UNCHANGED <<tickets, db_faulty>>
    /\ UNCHANGED categorization_vars

\* `return _fallback_categorization(title, description)` in categorize_ticket.
CategorizeFallback(c) ==
    /\ creation[c].pc = "fallback"
    /\ LET r == posted_ticket_fallback[<<creation[c].title, creation[c].description>>] IN
        creation' = [creation EXCEPT ![c] =
            [@ EXCEPT !.department = Some(r.department),
                      !.confidence = Some(r.confidence),
                      !.pc = "route"]]
    /\ last_response' = None
    /\ UNCHANGED <<tickets, db_faulty>>
    /\ UNCHANGED categorization_vars

\* create_new_ticket from the call of route_ticket_to_department on: the
\* UPDATE in a transaction of its own, whose result is not looked at, and the
\* response.
RouteTicket(c) ==
    /\ creation[c].pc = "route"
    /\ \E raised \in StatementRaises :
        LET s == creation[c]
            r == route_ticket_to_department(tickets, s.ticket_id, s.department.val,
                                            s.confidence, raised)
        IN  /\ tickets' = r.table
            /\ creation' = [creation EXCEPT ![c] =
                    Respond(s, IF r.raises # None THEN 500 ELSE 201)]
    /\ last_response' = None
    /\ UNCHANGED db_faulty
    /\ UNCHANGED categorization_vars

\* GET /api/tickets
GetAllTickets ==
    /\ \E raised \in StatementRaises :
        last_response' =
            IF raised THEN [request |-> "GET /api/tickets", code |-> 500]
            ELSE [request |-> "GET /api/tickets", code |-> 200,
                  tickets |-> select_all(tickets)]
    /\ UNCHANGED <<tickets, creation, db_faulty>>
    /\ UNCHANGED categorization_vars

\* GET /api/tickets/<ticket_id>
GetTicket ==
    /\ \E ticket_id \in 1..(Len(tickets) + 1), raised \in StatementRaises :
        last_response' =
            IF raised THEN [request |-> "GET /api/tickets/<id>", code |-> 500]
            ELSE IF ticket_id \in 1..Len(tickets)
            THEN [request |-> "GET /api/tickets/<id>", code |-> 200,
                  tickets |-> {[id |-> ticket_id, row |-> tickets[ticket_id]]}]
            ELSE [request |-> "GET /api/tickets/<id>", code |-> 404]
    /\ UNCHANGED <<tickets, creation, db_faulty>>
    /\ UNCHANGED categorization_vars

\* GET /api/dashboard/summary
GetDashboardSummary ==
    /\ \E raised \in StatementRaises :
        last_response' =
            IF raised THEN [request |-> "GET /api/dashboard/summary", code |-> 500]
            ELSE [request |-> "GET /api/dashboard/summary", code |-> 200,
                  total_tickets |-> Len(tickets),
                  by_department |-> by_department(tickets)]
    /\ UNCHANGED <<tickets, creation, db_faulty>>
    /\ UNCHANGED categorization_vars

NextCreate ==
    \/ \E c \in Creators :
        \/ CreateNewTicket(c)
        \/ Categorize(c)
        \/ Backoff(c)
        \/ CategorizeFallback(c)
        \/ RouteTicket(c)
    \/ GetAllTickets
    \/ GetTicket
    \/ GetDashboardSummary

SpecCreate == InitCreate /\ [][NextCreate]_vars

\* The same requests on a database whose statements may raise
\* (sqlite3.OperationalError: database is locked, disk I/O error).
InitCreateFaulty ==
    /\ NoCategorization
    /\ tickets = << >>
    /\ creation = [c \in Creators |-> NoCreation]
    /\ last_response = None
    /\ db_faulty = TRUE

SpecCreateFaulty == InitCreateFaulty /\ [][NextCreate]_vars

(***************************************************************************)
(* The store, routing and PUT /api/tickets/<id>/status, one call at a time *)
(***************************************************************************)
\* The largest number of tickets stored.
MaxTickets == 2

\* The departments and confidences route_ticket_to_department is called
\* with, and the bodies of PUT /api/tickets/<id>/status: JSON objects, None
\* for a status that is absent.
RoutedDepartments == {HR, <<"M","a","r","k","e","t","i","n","g">>}
RoutedConfidences == {Some(0 - 1), Some(0), Some(100), Some(101), None}
StatusBodies ==
    { [status |-> None], [status |-> Some("pending")],
      [status |-> Some("in_progress")], [status |-> Some("resolved")],
      [status |-> Some("invalid_status")], [status |-> Some("Resolved")] }

InitStore ==
    /\ NoCategorization
    /\ tickets = << >>
    /\ creation = [c \in Creators |-> NoCreation]
    /\ last_response = None
    /\ db_faulty \in BOOLEAN

\* create_ticket(title, description, user_name, user_email)
StoreTicket ==
    /\ Len(tickets) < MaxTickets
    /\ \E raised \in StatementRaises :
        IF raised
        THEN /\ tickets' = tickets
             /\ last_response' = [request |-> "create_ticket", raises |-> TRUE]
        ELSE /\ tickets' = Append(tickets,
                    inserted_row(<<"P","a","y","r","o","l","l">>, <<"H","e","l","l","o"," ","t","h","e","r","e">>, <<"A","n","n">>, <<"a","@","b",".","c">>))
             /\ last_response' = [request |-> "create_ticket", raises |-> FALSE,
                                  returns |-> Len(tickets')]
    /\ UNCHANGED <<creation, db_faulty>>
    /\ UNCHANGED categorization_vars

\* route_ticket_to_department(ticket_id, department, confidence_score), for
\* the ids stored and one that is not.
RouteCall ==
    /\ \E ticket_id \in 1..(Len(tickets) + 1), department \in RoutedDepartments,
          confidence_score \in RoutedConfidences, raised \in StatementRaises :
        LET r == route_ticket_to_department(tickets, ticket_id, department,
                                            confidence_score, raised)
        IN  /\ tickets' = r.table
            /\ last_response' =
                [request |-> "route_ticket_to_department",
                 ticket_id |-> ticket_id, department |-> department,
                 confidence_score |-> confidence_score,
                 raises |-> r.raises, returns |-> r.returns]
    /\ UNCHANGED <<creation, db_faulty>>
    /\ UNCHANGED categorization_vars

\* PUT /api/tickets/<ticket_id>/status: update_status.  raised tells whether
\* a statement of the request raises: the SELECT of ticket_exists raises
\* into the handler's except, update_ticket_status returns False when its
\* UPDATE raises, and both end in 500.
UpdateStatus ==
    /\ \E ticket_id \in 1..(Len(tickets) + 1), data \in StatusBodies,
          raised \in StatementRaises :
        LET error == update_status_error(data, ticket_exists(tickets, ticket_id))
            code == IF data.status = None \/ status_invalid(data.status.val)
                    THEN error.val
                    ELSE IF raised THEN 500
                    ELSE IF error # None THEN error.val
                    ELSE 200
        IN  /\ tickets' = IF code = 200
                          THEN set_status(tickets, ticket_id, data.status.val)
                          ELSE tickets
            /\ last_response' =
                [request |-> "PUT /api/tickets/<id>/status",
                 ticket_id |-> ticket_id, data |-> data,
                 code |-> code, success |-> (code = 200)]
    /\ UNCHANGED <<creation, db_faulty>>
    /\ UNCHANGED categorization_vars

NextStore ==
    \/ StoreTicket
    \/ RouteCall
    \/ UpdateStatus

SpecStore == InitStore /\ [][NextStore]_vars

(***************************************************************************)
(* Properties of categorize_ticket                                         *)
(***************************************************************************)
Returned == pc = "returned"
\* The call returned what the response of its last attempt said.
ReturnedFromResponse == Returned /\ scores = None
\* The call returned what the scorer said.
ReturnedFromFallback == Returned /\ scores # None
\* What _fallback_categorization returns for each ticket.
ScorerReturns ==
    [t \in Titles |-> [d \in Descriptions |-> _fallback_categorization(t, d)]]
AllAttempts(kind) == \A i \in 1..Len(log) : log[i] = kind

\* C1: whatever the classifier does on each attempt (raises, answers with a
\* malformed text, answers with a well-formed text), no exception leaves
\* categorize_ticket, and what it returns is a pair of one of the five
\* departments and an integer in 0..100.
C1_AlwaysValidResult ==
    /\ escaped = None
    /\ pc # "raised"
    /\ Returned =>
        /\ result # None
        /\ result.val.department \in DepartmentSet
        /\ result.val.confidence \in 0..100
\* A call that returned after a raising attempt and a malformed answer, on a
\* response whose confidence had to be clamped.
C1_Witness ==
    /\ Returned
    /\ log = <<"raised", "unnamed", "named">>
    /\ 150 \in Says[response_text].integers
    /\ result.val.confidence = 100

\* C2: when the service raises on every attempt, categorize_ticket has called
\* it exactly AI_MAX_RETRIES times and slept exactly AI_MAX_RETRIES - 1 times
\* when it returns, and it returns the pair of _fallback_categorization for
\* the same title and description.
C2_AllRaised ==
    (Returned /\ api_key_set /\ AllAttempts("raised")) =>
        /\ calls = AI_MAX_RETRIES
        /\ delays = AI_MAX_RETRIES - 1
        /\ result = Some(ScorerReturns[title][description])
C2_Witness ==
    /\ Returned
    /\ api_key_set
    /\ log = <<"raised", "raised", "raised">>
    /\ delays = 2
    /\ result.val.department = Finance

\* C3 as stated: when the first response has a Department: line naming an
\* enumerated department D and a Confidence: line carrying an integer N in
\* 0..100, the call returns (D, N) after one service call, no sleep and no
\* use of the scorer.
C3_AnyLineDecides ==
    (log # << >> /\ log[1] = "named") =>
        /\ Returned /\ calls = 1 /\ delays = 0 /\ scores = None
        /\ \A d \in Says[response_text].departments :
            \A n \in Says[response_text].integers \cap 0..100 :
                result = Some([department |-> d, confidence |-> n])
\* C3, amended: when the first response has a Department: line naming an
\* enumerated department, the call returns after one service call, no sleep
\* and no use of the scorer; and it returns (D, N) when D is the department
\* the last such line names and N in 0..100 is the integer the last
\* Confidence: line carries.
C3_LastLinesDecide ==
    (log # << >> /\ log[1] = "named") =>
        /\ Returned /\ Len(log) = 1 /\ calls = 1 /\ delays = 0 /\ scores = None
        /\ LET said == Says[response_text]
           IN (said.last_integer # None /\ said.last_integer.val \in 0..100) =>
                result = Some([department |-> said.last_department.val,
                               confidence |-> said.last_integer.val])
\* A first response with two departments named and two integers carried.
C3_Witness ==
    /\ Returned
    /\ log = <<"named">>
    /\ Says[response_text].last_integer = Some(30)
    /\ Says[response_text].last_department = Some(IT_Support)
    /\ result = Some([department |-> IT_Support, confidence |-> 30])

\* C4 as stated: when the call returns on a response, the confidence it
\* returns is AI_DEFAULT_CONFIDENCE if and only if the parser found no
\* confidence, and a parsed confidence is returned as parsed.
C4_DefaultIffNoneParsed ==
    ReturnedFromResponse =>
        /\ (result.val.confidence = AI_DEFAULT_CONFIDENCE) <=> (parsed.confidence = None)
        /\ parsed.confidence # None => result.val.confidence = parsed.confidence.val
\* C4, amended: when the call returns on a response, the confidence it returns
\* is AI_DEFAULT_CONFIDENCE when the parser found no confidence and is the
\* parsed confidence otherwise, 0 included.
C4_DefaultWhenNoneParsed ==
    ReturnedFromResponse =>
        /\ result.val.department = parsed.department.val
        /\ parsed.confidence = None => result.val.confidence = AI_DEFAULT_CONFIDENCE
        /\ parsed.confidence # None => result.val.confidence = parsed.confidence.val
\* A parsed confidence of 0 returned as 0.
C4_Witness ==
    /\ ReturnedFromResponse
    /\ parsed.confidence = Some(0)
    /\ result.val.confidence = 0

\* C5: when the service answers every attempt with a text in which no
\* Department: line names an enumerated department, categorize_ticket has
\* called it exactly AI_MAX_RETRIES times when it returns, and it returns the
\* pair of _fallback_categorization for the same title and description.
C5_AllUnnamed ==
    (Returned /\ AllAttempts("unnamed")) =>
        /\ calls = AI_MAX_RETRIES
        /\ ReturnedFromFallback
        /\ result = Some(ScorerReturns[title][description])
C5_Witness ==
    /\ Returned
    /\ log = <<"unnamed", "unnamed", "unnamed">>
    /\ delays = 0
    /\ result.val.department = HR

\* An upper bound on the steps categorize_ticket has left to take.
StepsLeft ==
    CASE pc = "attempt" -> 2 * (AI_MAX_RETRIES - attempt) + 2
      [] pc = "sleep" -> 2 * (AI_MAX_RETRIES - attempt) + 1
      [] pc = "fallback" -> 1
      [] OTHER -> 0

\* C6: whatever the service does, as long as each of its calls returns or
\* raises, categorize_ticket returns, after at most AI_MAX_RETRIES service
\* calls and at most AI_MAX_RETRIES - 1 sleeps: the calls and sleeps stay
\* within these numbers, a call that has not returned can take a step, and
\* every step leaves fewer steps to take.
C6_BoundedTermination ==
    /\ [](/\ calls <= AI_MAX_RETRIES
          /\ delays <= AI_MAX_RETRIES - 1
          /\ StepsLeft >= 0
          /\ Returned \/ ENABLED Next)
    /\ [][StepsLeft' < StepsLeft]_vars
\* The same as a liveness property of LiveSpec.
Terminates == <>Returned
C6_Witness == Returned /\ calls = AI_MAX_RETRIES /\ delays = AI_MAX_RETRIES - 1

(***************************************************************************)
(* Properties of _fallback_categorization                                  *)
(***************************************************************************)
Scored == pc = "scored"
\* The departments that have a keyword table, in the order of the tables.
TableOrder == <<IT_Support, HR, Facilities, Finance>>
\* Every keyword of the four tables.
AllKeywords ==
    {it_keywords[i] : i \in 1..Len(it_keywords)}
        \cup {hr_keywords[i] : i \in 1..Len(hr_keywords)}
        \cup {facilities_keywords[i] : i \in 1..Len(facilities_keywords)}
        \cup {finance_keywords[i] : i \in 1..Len(finance_keywords)}
\* The tickets whose lower-cased text contains no keyword.
KeywordFree ==
    {tk \in Titles \X Descriptions :
        \A k \in AllKeywords : ~contains(k, lower(tk[1] \o <<" ">> \o tk[2]))}
\* The largest keyword count of the last call.
MaxCount ==
    CHOOSE n \in {scores.val[TableOrder[i]] : i \in 1..Len(TableOrder)} :
        \A i \in 1..Len(TableOrder) : scores.val[TableOrder[i]] <= n

\* C7: when some department has a keyword count of 1 or more,
\* _fallback_categorization returns a department whose count is the maximum
\* and before which, in the order IT Support, HR, Facilities, Finance, no
\* department has that count.
C7_FirstMaximumWins ==
    (Scored /\ MaxCount >= 1) =>
        \E i \in 1..Len(TableOrder) :
            /\ result.val.department = TableOrder[i]
            /\ scores.val[TableOrder[i]] = MaxCount
            /\ \A j \in 1..(i - 1) : scores.val[TableOrder[j]] < MaxCount
\* IT Support and HR tied at 2 each gives IT Support.
C7_Witness ==
    /\ Scored
    /\ scores.val[IT_Support] = 2
    /\ scores.val[HR] = 2
    /\ MaxCount = 2
    /\ result.val.department = IT_Support

\* C8: _fallback_categorization returns General exactly when the lower-cased
\* text of title and description contains no keyword of the four tables, and
\* it then returns (General, AI_FALLBACK_CONFIDENCE) = (General, 30).
C8_GeneralIffNoKeyword ==
    Scored =>
        /\ (<<title, description>> \in KeywordFree) <=> (result.val.department = General)
        /\ result.val.department = General =>
            result.val.confidence = AI_FALLBACK_CONFIDENCE /\ result.val.confidence = 30
C8_Witness ==
    /\ Scored
    /\ <<title, description>> \in KeywordFree
    /\ result = Some([department |-> General, confidence |-> 30])

\* C9: when the department _fallback_categorization returns has n >= 1
\* keyword matches, the confidence is min(50 + 10 * n, 75): 60 for n = 1,
\* 70 for n = 2 and 75 for every n >= 3.
C9_ConfidenceFromMatches ==
    (Scored /\ MaxCount >= 1) =>
        /\ scores.val[result.val.department] = MaxCount
        /\ result.val.confidence = min(50 + 10 * MaxCount, 75)
        /\ MaxCount = 1 => result.val.confidence = 60
        /\ MaxCount = 2 => result.val.confidence = 70
        /\ MaxCount >= 3 => result.val.confidence = 75
\* 3 Finance keywords and 1 HR keyword give (Finance, 75).
C9_Witness ==
    /\ Scored
    /\ scores.val[Finance] = 3
    /\ scores.val[HR] = 1
    /\ result = Some([department |-> Finance, confidence |-> 75])

\* The last call had the arguments of the remembered one.
SameTicketAgain ==
    /\ Scored
    /\ remembered # None
    /\ remembered.val.call < score_calls
    /\ remembered.val.title = title
    /\ remembered.val.description = description
C11_ThirtyMeansNoSignal ==
    (Returned /\ result.val.confidence = 30) =>
        /\ ReturnedFromFallback
        /\ MaxCount = 0
        /\ result.val.department = General
\* C11, amended: whenever categorize_ticket returns a confidence of exactly
\* 30, either the result came from the scorer with no keyword match and the
\* department is General, or the result came from a classifier response whose
\* last Confidence: line carries 30.
C11_ThirtyFromScorerMeansNoSignal ==
    (Returned /\ result.val.confidence = 30) =>
        IF ReturnedFromFallback
        THEN /\ MaxCount = 0
             /\ <<title, description>> \in KeywordFree
             /\ result.val.department = General
        ELSE Says[response_text].last_integer = Some(30)
\* A ticket without a keyword, no attempt naming a department.
C11_Witness ==
    /\ ReturnedFromFallback
    /\ result = Some([department |-> General, confidence |-> 30])
    /\ MaxCount = 0
    /\ Len(log) = AI_MAX_RETRIES

\* C12 as stated: whenever categorize_ticket returns a confidence of 70 or
\* more, the result came from a classifier response and not from the scorer.
C12_SeventyMeansClassifier ==
    (Returned /\ result.val.confidence >= 70) => ReturnedFromResponse
\* C12, amended: whenever categorize_ticket returns a confidence above 75,
\* the result came from a classifier response and not from the scorer; the
\* scorer returns 30, 60, 70 or 75.
C12_AboveCapMeansClassifier ==
    /\ (Returned /\ result.val.confidence > 75) => ReturnedFromResponse
    /\ ReturnedFromFallback => result.val.confidence \in {30, 60, 70, 75}
\* A response whose confidence is above the scorer's cap.
C12_Witness ==
    /\ ReturnedFromResponse
    /\ log = <<"named">>
    /\ result.val.confidence > 75
    /\ Says[response_text].last_integer = Some(150)

(***************************************************************************)
(* The order of attempts and delays in categorize_ticket                   *)
(***************************************************************************)
\* The attempts so far in which the service call raised and which were not
\* the last attempt the loop allows.
HardFailuresBeforeLast ==
    {i \in 1..Len(log) : log[i] = "raised" /\ i < AI_MAX_RETRIES}

\* C18: in every run of categorize_ticket there is one delay for each attempt
\* that raised and was not the AI_MAX_RETRIES-th, and it comes right after
\* that attempt and before the next one; no delay follows an attempt that
\* returned a text or the last attempt.
C18_DelayAfterHardFailureOnly ==
    /\ [](IF pc = "sleep"
          THEN /\ Len(log) \in HardFailuresBeforeLast
               /\ delays = Cardinality(HardFailuresBeforeLast) - 1
          ELSE delays = Cardinality(HardFailuresBeforeLast))
    /\ [][/\ delays' # delays =>
                /\ pc = "sleep" /\ pc' = "attempt"
                /\ delays' = delays + 1 /\ log' = log
          /\ (Len(log') > Len(log) /\ log'[Len(log')] # "raised") => pc' # "sleep"
          /\ (Len(log') > Len(log) /\ Len(log') = AI_MAX_RETRIES) => pc' # "sleep"]_vars
\* A run with a delay after the first attempt only: the first raised, the
\* second answered without a department, the last raised.
C18_Witness ==
    /\ Returned
    /\ log = <<"raised", "unnamed", "raised">>
    /\ delays = 1

\* The first attempt whose response names an enumerated department.
NamedAttempts == {k \in 1..Len(log) : log[k] = "named"}
\* The (department, confidence) a response gives: the department of its last
\* naming line, and the integer of its last Confidence: line brought into
\* 0..100, or the default when that line is missing or carries no integer.
ResponseGives(text) ==
    LET said == Says[text]
        n == said.last_integer
    IN  [department |-> said.last_department.val,
         confidence |-> IF n = None THEN AI_DEFAULT_CONFIDENCE
                        ELSE IF n.val < 0 THEN 0
                        ELSE IF n.val > 100 THEN 100 ELSE n.val]

\* C19: when attempt k is the first whose response names an enumerated
\* department, categorize_ticket has made exactly k service calls, has not
\* used the scorer and returns what that response gives; and the scorer is
\* used only after AI_MAX_RETRIES attempts none of which named a department.
C19_FirstNamedAttemptDecides ==
    /\ NamedAttempts # {} =>
        /\ NamedAttempts = {Len(log)}
        /\ calls = Len(log)
        /\ Returned
        /\ scores = None /\ score_calls = 0
        /\ result = Some(ResponseGives(response_text))
    /\ (pc = "fallback" \/ scores # None \/ score_calls > 0) =>
        /\ NamedAttempts = {}
        /\ Len(log) = AI_MAX_RETRIES
        /\ calls = AI_MAX_RETRIES
\* The third attempt decides after a soft and a hard failure.
C19_Witness ==
    /\ Returned
    /\ log = <<"unnamed", "raised", "named">>
    /\ calls = 3
    /\ scores = None
    /\ result = Some(ResponseGives(response_text))

\* On every text the parser returns the department the last naming line
\* names, in the spelling of DEPARTMENTS, and none when no line names one.
ParserNamesCanonically ==
    \A r \in ParsedTexts :
        /\ r.parsed.department = Says[r.text].last_department
        /\ r.parsed.department # None => r.parsed.department.val \in DepartmentSet

\* C20: _parse_ai_response matches the name after Department: against
\* DEPARTMENTS in any letter case and returns the spelling of DEPARTMENTS; a
\* name that is no department in any letter case gives no department; so the
\* department of a call that returned on a response is a member of
\* DEPARTMENTS in its exact spelling.
C20_CanonicalDepartment ==
    /\ ParserNamesCanonically
    /\ ReturnedFromResponse =>
        /\ result.val.department \in DepartmentSet
        /\ result.val.department \in Says[response_text].departments
    /\ (log # << >> /\ log[Len(log)] = "unnamed") => ~ReturnedFromResponse
\* 'Department: it support' gives IT Support.
C20_Witness ==
    /\ ReturnedFromResponse
    /\ response_text = <<"D","e","p","a","r","t","m","e","n","t",":"," ","i","t"," ","s","u","p","p","o","r","t">>
    /\ parsed.department = Some(IT_Support)
    /\ result.val.department = IT_Support

(***************************************************************************)
(* Properties of POST /api/tickets                                         *)
(***************************************************************************)
\* The last request read the store and was answered with rows of it.
ReadAnswered == last_response # None /\ last_response.code = 200

\* C13: no request that runs between the steps of a POST /api/tickets (GET
\* /api/tickets, GET /api/tickets/<id>, the dashboard summary) is answered
\* with a stored ticket that has no department or no confidence.
C13_NoUnassignedTicketObserved ==
    ReadAnswered =>
        IF last_response.request = "GET /api/dashboard/summary"
        THEN None \notin DOMAIN last_response.by_department
        ELSE \A t \in last_response.tickets :
                t.row.department # None /\ t.row.confidence_score # None

\* The (department, confidence) a response that says `said` gives.
GivenBy(said) ==
    [department |-> said.last_department.val,
     confidence |-> IF said.last_integer = None THEN AI_DEFAULT_CONFIDENCE
                    ELSE IF said.last_integer.val < 0 THEN 0
                    ELSE IF said.last_integer.val > 100 THEN 100
                    ELSE said.last_integer.val]
\* What a creation with locals s ends with when it runs alone: what the first
\* of its classifier answers that names an enumerated department gives, or,
\* when none does, what the scorer returns for its title and description.
AloneResult(s) ==
    LET named == {k \in 1..Len(s.outcomes) :
                    /\ s.outcomes[k] # None
                    /\ ClassifierSays[s.outcomes[k].val].departments # {}}
    IN  IF named # {}
        THEN GivenBy(ClassifierSays[
                s.outcomes[CHOOSE k \in named : \A j \in named : k <= j].val])
        ELSE posted_ticket_fallback[<<s.title, s.description>>]

\* C14: two POST /api/tickets running at the same time, their steps in any
\* order: each has a ticket of its own, with its own title and description,
\* that only its own department update changes, and each ends with that
\* ticket holding the department and confidence that its own title,
\* description and classifier answers give when it runs alone.
C14_CreationsIndependent ==
    \A c \in Creators :
        LET s == creation[c] IN
        /\ s.ticket_id # 0 =>
            /\ s.ticket_id \in 1..Len(tickets)
            /\ \A o \in Creators \ {c} : creation[o].ticket_id # s.ticket_id
            /\ tickets[s.ticket_id].title = s.title
            /\ tickets[s.ticket_id].description = s.description
            /\ s.pc # "responded" =>
                /\ tickets[s.ticket_id].department = None
                /\ tickets[s.ticket_id].confidence_score = None
        /\ (s.pc = "responded" /\ s.code = 201) =>
            /\ tickets[s.ticket_id].department = Some(AloneResult(s).department)
            /\ tickets[s.ticket_id].confidence_score = Some(AloneResult(s).confidence)
            /\ s.department = tickets[s.ticket_id].department
            /\ s.confidence = tickets[s.ticket_id].confidence_score
\* The second creation stored its ticket first and was still retrying when
\* the first stored its own; the first was answered by the classifier, the
\* second fell back to the scorer.
C14_Witness ==
    /\ creation[2].ticket_id = 1 /\ creation[1].ticket_id = 2
    /\ creation[1].pc = "responded" /\ creation[1].code = 201
    /\ creation[2].pc = "responded" /\ creation[2].code = 201
    /\ Len(creation[1].outcomes) = 1
    /\ creation[2].delays = 2
    /\ tickets[1].department # tickets[2].department

\* A body in which a required field is missing or empty, or whose trimmed
\* title has fewer than 3 characters, or whose trimmed description has fewer
\* than 10.
BodyInvalid(data) ==
    \/ \E f \in {"title", "description", "user_name", "user_email"} :
            data[f] = None \/ Len(data[f].val) = 0
    \/ Len(strip(data.title.val)) < 3
    \/ Len(strip(data.description.val)) < 10
InvalidBodies == {data \in PostBodies : BodyInvalid(data)}

\* C15: a POST /api/tickets whose body is invalid is answered with 400 and
\* success false, has stored no ticket and has made no classifier call; the
\* table holds the tickets of the other requests only.
C15_InvalidPostRejected ==
    /\ \A c \in Creators :
        (creation[c].data # None /\ creation[c].data.val \in InvalidBodies) =>
            /\ creation[c].pc = "responded"
            /\ creation[c].code = 400
            /\ ~creation[c].success
            /\ creation[c].ticket_id = 0
            /\ creation[c].calls = 0
    /\ Len(tickets) = Cardinality({c \in Creators : creation[c].ticket_id # 0})
\* A title of three characters or more with fewer than three once trimmed,
\* rejected while the other request stored its ticket.
C15_Witness ==
    /\ creation[1].pc = "responded"
    /\ creation[1].code = 400
    /\ creation[1].data.val.title = Some(<<" ","a","b"," "," ">>)
    /\ creation[2].code = 201
    /\ Len(tickets) = 1

(***************************************************************************)
(* Properties of update_status and route_ticket_to_department              *)
(***************************************************************************)
\* The last request was a PUT /api/tickets/<id>/status.
StatusRequested ==
    last_response # None /\ last_response.request = "PUT /api/tickets/<id>/status"
\* Its status is one of pending, in_progress, resolved.
StatusNamed(data) ==
    data.status # None /\ data.status.val \in {"pending", "in_progress", "resolved"}

\* C16: a PUT /api/tickets/<id>/status without a status, or with one that is
\* not pending, in_progress or resolved, is answered with 400, whether the
\* ticket is stored or not; with one of the three and an id that is not
\* stored it is answered with 404 (unless the database fails, 500); and a
\* request answered with 400 or 404 changes no stored ticket.
C16_BadStatusRequestRejected ==
    [][ StatusRequested' =>
          LET rsp == last_response' IN
          /\ ~StatusNamed(rsp.data) => rsp.code = 400
          /\ (StatusNamed(rsp.data) /\ rsp.ticket_id \notin 1..Len(tickets)) =>
                /\ rsp.code \in {404, 500}
                /\ ~db_faulty => rsp.code = 404
          /\ rsp.code \in {400, 404} => (~rsp.success /\ tickets' = tickets)
      ]_vars
\* A request without a valid status for an id that is not stored, answered
\* 400 and not 404, with a ticket stored.
C16_Witness ==
    /\ StatusRequested
    /\ last_response.data.status = Some("invalid_status")
    /\ last_response.ticket_id = Len(tickets) + 1
    /\ last_response.code = 400
    /\ Len(tickets) = 1
    /\ tickets[1].status = "in_progress"

\* C17: route_ticket_to_department(ticket_id, department, confidence)
\* returns True only if afterwards a ticket with that id is stored with that
\* department and that confidence.
C17_TrueMeansRouted ==
    (/\ last_response # None
     /\ last_response.request = "route_ticket_to_department"
     /\ last_response.returns = Some(TRUE)) =>
        /\ last_response.ticket_id \in 1..Len(tickets)
        /\ tickets[last_response.ticket_id].department = Some(last_response.department)
        /\ tickets[last_response.ticket_id].confidence_score = last_response.confidence_score

(***************************************************************************)
(* Properties of _parse_ai_response on Confidence: and Department: lines   *)
(***************************************************************************)
\* On every text whose last Confidence: line carries an integer the parser
\* returns a confidence within 0..100.
ParserClampsConfidence ==
    \A r \in ParsedTexts :
        Says[r.text].last_integer # None =>
            /\ r.parsed.confidence # None
            /\ r.parsed.confidence.val \in 0..100

\* C21: the integer of the (last) Confidence: line of the response a call
\* returned on is brought into 0..100 before it is returned: above 100 it
\* gives 100, below 0 it gives 0, within 0..100 it is returned as it is.
C21_ConfidenceClamped ==
    /\ ParserClampsConfidence
    /\ (ReturnedFromResponse /\ Says[response_text].last_integer # None) =>
        LET n == Says[response_text].last_integer.val IN
        /\ result.val.confidence \in 0..100
        /\ n > 100 => result.val.confidence = 100
        /\ n < 0 => result.val.confidence = 0
        /\ n \in 0..100 => result.val.confidence = n
        /\ parsed.confidence = Some(result.val.confidence)
\* 'Confidence: -5' on a response that names HR gives (HR, 0).
C21_Witness ==
    /\ ReturnedFromResponse
    /\ Says[response_text].last_integer = Some(0 - 5)
    /\ Says[response_text].integers = {0 - 5}
    /\ result = Some([department |-> HR, confidence |-> 0])

\* The texts that name an enumerated department and whose last Confidence:
\* line carries no integer.
NamedWithoutInteger ==
    {t \in ServiceTexts :
        /\ Says[t].departments # {}
        /\ Says[t].confidence_lines > 0
        /\ Says[t].last_integer = None}
\* The parser raises on none of them: it returns the department and no
\* confidence.
UnreadableConfidenceIsAbsent ==
    \A r \in ParsedTexts :
        r.text \in NamedWithoutInteger =>
            /\ department_valid(r.parsed.department)
            /\ r.parsed.confidence = None

\* C22: a Confidence: line without an integer counts as no confidence and
\* not as an error.  A call that returned on a response naming an enumerated
\* department whose last Confidence: line carries no integer returned
\* AI_DEFAULT_CONFIDENCE, also when an earlier Confidence: line carried an
\* integer; and an attempt whose response names an enumerated department
\* returns at once, with no further attempt and no delay.
C22_UnreadableConfidenceIsDefault ==
    /\ [](/\ UnreadableConfidenceIsAbsent
          /\ (ReturnedFromResponse /\ response_text \in NamedWithoutInteger) =>
                /\ result.val.confidence = AI_DEFAULT_CONFIDENCE
                /\ parsed.confidence = None
                /\ log[Len(log)] = "named"
                /\ calls = Len(log))
    /\ [][(Len(log') > Len(log) /\ log'[Len(log')] = "named") =>
            /\ pc' = "returned"
            /\ delays' = delays
            /\ scores' = None]_vars
\* 'Confidence: 30' followed by 'Confidence: high': the default, not 30.
C22_Witness ==
    /\ ReturnedFromResponse
    /\ response_text = <<"D","e","p","a","r","t","m","e","n","t",":"," ","H","R","\n","C","o","n","f","i","d","e","n","c","e",":"," ","3","0","\n","C","o","n","f","i","d","e","n","c","e",":"," ","h","i","g","h">>
    /\ result = Some([department |-> HR, confidence |-> 70])
    /\ delays = 0
    /\ calls = 1

\* The Department: lines of a text, and those of them that name an
\* enumerated department.
DepartmentLines(text) ==
    LET ls == StrippedLines(text)
    IN  [all |-> {i \in 1..Len(ls) : startswith(ls[i], DepartmentPrefix)},
         naming |-> {i \in 1..Len(ls) : LineNamesDepartment(ls[i])},
         lines |-> ls]
\* The texts in which a Department: line that names no enumerated department
\* follows one that does.
UnknownAfterNamed ==
    {t \in ServiceTexts :
        LET dl == DepartmentLines(t)
        IN  \E i \in dl.naming, j \in dl.all \ dl.naming : i < j}
\* The department the last naming line of a text names.
LastNamed(text) ==
    LET dl == DepartmentLines(text)
    IN  CHOOSE d \in DepartmentSet : LineNames(dl.lines[Last(dl.naming)], d)
\* The texts with several Department: lines, each with the department the
\* parser must return for it.
SeveralDepartmentLines ==
    {[text |-> t, department |-> LastNamed(t)] :
        t \in {u \in ServiceTexts :
                /\ Cardinality(DepartmentLines(u).all) >= 2
                /\ DepartmentLines(u).naming # {}}}
LastNamingLineDecides ==
    \A r \in ParsedTexts :
        \A s \in SeveralDepartmentLines :
            s.text = r.text => r.parsed.department = Some(s.department)

\* C29: for a response with several Department: lines the parser returns the
\* department of the last line that names an enumerated one; a Department:
\* line that names none, after one that does, does not clear it, and the
\* attempt returns that department instead of failing.
C29_LastNamingLineDecides ==
    /\ LastNamingLineDecides
    /\ \A s \in SeveralDepartmentLines :
        (ReturnedFromResponse /\ response_text = s.text) =>
            result.val.department = s.department
    /\ (pc = "attempt" /\ attempt > 0 /\ log[Len(log)] # "raised") =>
            log[Len(log)] = "unnamed"
\* HR, then IT Support, then a department that is not enumerated.
C29_Witness ==
    /\ ReturnedFromResponse
    /\ response_text = <<"D","e","p","a","r","t","m","e","n","t",":"," ","H","R","\n","D","e","p","a","r","t","m","e","n","t",":"," ","i","t"," ","s","u","p","p","o","r","t","\n","D","e","p","a","r","t","m","e","n","t",":"," ","S","a","l","e","s">>
    /\ response_text \in UnknownAfterNamed
    /\ result.val.department = IT_Support

(***************************************************************************)
(* categorize_ticket without CLAUDE_API_KEY                                *)
(***************************************************************************)
\* C24: without the key every attempt raises before the service is
\* contacted, and categorize_ticket goes on as for any other raised error:
\* AI_MAX_RETRIES attempts with AI_MAX_RETRIES - 1 delays between them, then
\* the scorer's result; the error never reaches the caller.
C24_MissingKeyRetriesThenFallback ==
    ~api_key_set =>
        /\ contacts = 0
        /\ escaped = None /\ pc # "raised"
        /\ AllAttempts("raised")
        /\ calls = Len(log)
        /\ calls <= AI_MAX_RETRIES
        /\ pc \in {"fallback", "returned"} =>
            /\ calls = AI_MAX_RETRIES
            /\ delays = AI_MAX_RETRIES - 1
        /\ Returned =>
            /\ ReturnedFromFallback
            /\ result = Some(ScorerReturns[title][description])
\* Three attempts, two delays, no contact, and the scorer's (HR, 60) for a
\* ticket about payroll.
C24_Witness ==
    /\ ~api_key_set
    /\ Returned
    /\ contacts = 0
    /\ calls = 3 /\ delays = 2
    /\ log = <<"raised", "raised", "raised">>
    /\ title = <<"P","a","y","r","o","l","l">>
    /\ result.val.department = HR

(***************************************************************************)
(* The keyword counts of _fallback_categorization                          *)
(***************************************************************************)
\* Keyword k stands in text s at some position, letter for letter.
Occurs(k, s) ==
    \E i \in 0..(Len(s) - Len(k)) : \A j \in 1..Len(k) : s[i + j] = k[j]
\* The keyword table of each department that has one.
KeywordTable ==
    [d \in {TableOrder[i] : i \in 1..Len(TableOrder)} |->
        IF d = IT_Support THEN {it_keywords[i] : i \in 1..Len(it_keywords)}
        ELSE IF d = HR THEN {hr_keywords[i] : i \in 1..Len(hr_keywords)}
        ELSE IF d = Facilities
        THEN {facilities_keywords[i] : i \in 1..Len(facilities_keywords)}
        ELSE {finance_keywords[i] : i \in 1..Len(finance_keywords)}]
\* For every ticket and department, the keywords of the department's table
\* that stand in the lower-cased title, a space and the description.
OccurringKeywords ==
    [t \in Titles |-> [d \in Descriptions |->
        [dep \in DOMAIN KeywordTable |->
            {k \in KeywordTable[dep] : Occurs(k, lower(t \o <<" ">> \o d))}]]]
\* The keywords that stand in the text of the ticket just scored.
Matched == OccurringKeywords[title][description]

\* C23: the count of each department is the number of distinct keywords of
\* its table that occur as a substring of lower(title + ' ' + description),
\* however often and inside whatever word they occur and whatever the letter
\* case of the ticket, and the count of General is 0.
C23_CountsDistinctSubstrings ==
    Scored =>
        /\ \A dep \in DOMAIN KeywordTable :
                scores.val[dep] = Cardinality(Matched[dep])
        /\ scores.val[General] = 0
        /\ DOMAIN scores.val = DOMAIN KeywordTable \cup {General}
\* 'Cost cost' was scored (Finance, 60), one match for two occurrences, and
\* 'three SALARY' now counts 2 for HR: 'hr' inside 'three' and 'salary'.
C23_Witness ==
    /\ Scored
    /\ title = <<"H","e","l","l","o">> /\ description = <<"t","h","r","e","e"," ","S","A","L","A","R","Y">>
    /\ scores.val[HR] = 2
    /\ Matched[HR] = {<<"h","r">>, <<"s","a","l","a","r","y">>}
    /\ remembered # None
    /\ remembered.val.description = <<"C","o","s","t"," ","c","o","s","t">>
    /\ remembered.val.title = <<"H","e","l","l","o">>
    /\ remembered.val.result = [department |-> Finance, confidence |-> 60]

\* Every keyword that stands in the text of the ticket just scored.
AllMatched == UNION {Matched[dep] : dep \in DOMAIN KeywordTable}

\* C30: 'account' stands inside 'accounting', so whenever the Finance
\* keyword 'accounting' is counted the IT Support count is 1 or more; and a
\* ticket in which 'accounting' and 'account' are the only keywords is
\* scored (IT Support, 60).
C30_AccountingCountsForITSupport ==
    /\ Occurs(<<"a","c","c","o","u","n","t">>, <<"a","c","c","o","u","n","t","i","n","g">>)
    /\ <<"a","c","c","o","u","n","t">> \in KeywordTable[IT_Support]
    /\ <<"a","c","c","o","u","n","t","i","n","g">> \in KeywordTable[Finance]
    /\ Scored =>
        /\ <<"a","c","c","o","u","n","t","i","n","g">> \in Matched[Finance] =>
            /\ <<"a","c","c","o","u","n","t">> \in Matched[IT_Support]
            /\ scores.val[IT_Support] >= 1
        /\ AllMatched = {<<"a","c","c","o","u","n","t">>, <<"a","c","c","o","u","n","t","i","n","g">>} =>
            /\ scores.val[IT_Support] = 1 /\ scores.val[Finance] = 1
            /\ result = Some([department |-> IT_Support, confidence |-> 60])
\* 'Hello' with 'Accounting'.
C30_Witness ==
    /\ Scored
    /\ description = <<"A","c","c","o","u","n","t","i","n","g">>
    /\ AllMatched = {<<"a","c","c","o","u","n","t">>, <<"a","c","c","o","u","n","t","i","n","g">>}
    /\ scores.val[Finance] = 1
    /\ result = Some([department |-> IT_Support, confidence |-> 60])

(***************************************************************************)
(* What the stored tickets hold after any sequence of requests             *)
(***************************************************************************)
StatusSet == {"pending", "in_progress", "resolved"}
\* The last call was a create_ticket that returned.
TicketCreated ==
    /\ last_response # None
    /\ last_response.request = "create_ticket"
    /\ ~last_response.raises
\* PUT /api/tickets/<i>/status with status s can be served with 200 and
\* leaves ticket i with status s.
CanMoveTo(i, s) ==
    ENABLED (/\ UpdateStatus
             /\ last_response'.code = 200
             /\ last_response'.ticket_id = i
             /\ tickets'[i].status = s)

\* C25: every stored ticket has a status of pending, in_progress or
\* resolved; create_ticket stores the ticket as pending; and whatever status
\* a stored ticket has, a status update can move it to each of the three.
C25_StatusAlwaysEnumerated ==
    /\ \A i \in 1..Len(tickets) : tickets[i].status \in StatusSet
    /\ TicketCreated => tickets[last_response.returns].status = "pending"
    /\ \A i \in 1..Len(tickets) : \A s \in StatusSet : CanMoveTo(i, s)
\* A ticket just set to resolved, which can be moved back to pending.
C25_Witness ==
    /\ StatusRequested
    /\ last_response.code = 200
    /\ last_response.ticket_id = 1
    /\ last_response.data.status = Some("resolved")
    /\ tickets[1].status = "resolved"
    /\ CanMoveTo(1, "pending")

\* The last call was route_ticket_to_department.
RouteCalled ==
    last_response # None /\ last_response.request = "route_ticket_to_department"
\* Rows a and b differ in nothing but the fields named.
SameBut(a, b, fields) ==
    \A f \in (DOMAIN a) \ fields : a[f] = b[f]

\* C26: the UPDATE of a status request changes the status of the ticket with
\* the given id and nothing else, neither its department or confidence nor
\* any other ticket; the UPDATE of route_ticket_to_department changes the
\* department and confidence of the ticket with the given id and nothing
\* else, neither its status nor any other ticket.  Neither adds or removes a
\* ticket.
C26_UpdatesTouchTheirFieldsOnly ==
    [][/\ (StatusRequested' \/ RouteCalled') =>
            /\ Len(tickets') = Len(tickets)
            /\ \A i \in 1..Len(tickets) :
                    i # last_response'.ticket_id => tickets'[i] = tickets[i]
       /\ StatusRequested' =>
            \A i \in 1..Len(tickets) : SameBut(tickets'[i], tickets[i], {"status"})
       /\ RouteCalled' =>
            \A i \in 1..Len(tickets) :
                SameBut(tickets'[i], tickets[i], {"department", "confidence_score"})
      ]_vars
\* Ticket 1, routed to HR with 100, is set to resolved and keeps both, while
\* ticket 2 stays as it was created.
C26_Witness ==
    /\ Len(tickets) = 2
    /\ StatusRequested
    /\ last_response.code = 200
    /\ last_response.ticket_id = 1
    /\ tickets[1].status = "resolved"
    /\ tickets[1].department = Some(HR)
    /\ tickets[1].confidence_score = Some(100)
    /\ tickets[2].status = "pending"
    /\ tickets[2].department = None

\* C27: every stored ticket has no department or one of DEPARTMENTS, and no
\* confidence or one within 0..100; route_ticket_to_department called with
\* a department outside DEPARTMENTS or a confidence outside 0..100 raises
\* ValueError and changes no ticket.
C27_StoredAssignmentValid ==
    /\ [](/\ \A i \in 1..Len(tickets) :
                /\ tickets[i].department # None =>
                        tickets[i].department.val \in DepartmentSet
                /\ tickets[i].confidence_score # None =>
                        tickets[i].confidence_score.val \in 0..100
                /\ (tickets[i].department = None) <=> (tickets[i].confidence_score = None)
          /\ RouteCalled =>
                ((\/ last_response.department \notin DepartmentSet
                  \/ last_response.confidence_score = None
                  \/ last_response.confidence_score.val \notin 0..100)
                 <=> last_response.raises = Some("ValueError")))
    /\ [][(RouteCalled' /\ last_response'.raises # None) => tickets' = tickets]_vars
\* A call with a confidence of 101 for a ticket routed to HR with 100.
C27_Witness ==
    /\ RouteCalled
    /\ Len(tickets) >= 1
    /\ last_response.ticket_id = 1
    /\ last_response.department = HR
    /\ last_response.confidence_score = Some(101)
    /\ last_response.raises = Some("ValueError")
    /\ tickets[1].department = Some(HR)
    /\ tickets[1].confidence_score = Some(100)

(***************************************************************************)
(* What a 201 of POST /api/tickets tells about the stored ticket           *)
(***************************************************************************)
\* C28: whenever POST /api/tickets was answered 201 with a ticket id, a
\* department and a confidence, the ticket stored under that id holds that
\* department and that confidence, also when the UPDATE of the department
\* raised and update_ticket_department returned False.
C28_AnsweredAssignmentStored ==
    \A c \in Creators :
        (creation[c].pc = "responded" /\ creation[c].code = 201) =>
            /\ creation[c].ticket_id \in 1..Len(tickets)
            /\ tickets[creation[c].ticket_id].department = creation[c].department
            /\ tickets[creation[c].ticket_id].confidence_score = creation[c].confidence
=============================================================================
